---- MODULE Spec2Model ----
(***************************************************************************)
(* processpype: the service registry and lifecycle core.                   *)
(*                                                                         *)
(* Application (core/application.py) owns the registry of named Service    *)
(* instances and the application-wide state; Service (core/service.py) is  *)
(* the abstract lifecycle base; MonitoringService                          *)
(* (services/monitoring/service.py) is the concrete service.               *)
(*                                                                         *)
(* Scheduling is asyncio's: one coroutine runs at a time and gives up the  *)
(* processor only at an await that really suspends.  An action is         *)
(* therefore everything a coroutine does from one suspension to the next: *)
(* Service.start() never suspends, Service.stop() suspends where it awaits *)
(* the monitor task, Application.start() where it awaits the server.      *)
(* What a step did on its way is kept in `path` (the values each touched  *)
(* service's status took, in order) and `last` (what the call returned).  *)
(***************************************************************************)
EXTENDS Integers, Sequences, FiniteSets, TLC

\* ------------------------------------------------------------------ bounds
MaxServices == 2    \* names a service may be registered under
MaxTasks == 2       \* monitor tasks ever created
MaxCallers == 2     \* coroutines calling into the application at once

\* ------------------------------------------------------------- value types
Null == {}
Some(x) == {x}
The(o) == CHOOSE x \in o : TRUE

INITIALIZED == "initialized"
STARTING == "starting"
RUNNING == "running"
STOPPING == "stopping"
STOPPED == "stopped"
ERROR == "error"
ServiceState == {INITIALIZED, STARTING, RUNNING, STOPPING, STOPPED, ERROR}

\* Exception messages and set_error arguments.
Msgs == {"boom"}

\* Names: explicit overrides given at registration, the name derived from
\* the class, and a name nobody registers.
OverridePool == <<"a", "b", "c", "d">>
Overrides == {OverridePool[i] : i \in 1..(MaxServices - 1)}
Classes == {"MonitoringService"}
Missing == "missing"

\* type(self).__name__.lower().replace("service", "") on the classes above.
DerivedName(cls) ==
    CASE cls = "MonitoringService" -> "monitoring"

\* Service.__init__: name or <derived>; an empty override is falsy.
ServiceName(cls, ovr) == IF ovr # "" THEN ovr ELSE DerivedName(cls)

\* Class names in general, as the words of __name__.lower() (cut where the
\* capitals were), and the same expression on them: str.replace removes
\* every occurrence of "service".
MaxWords == 3
WordPool == {"service", "monitor", "data"}
ClassNames == UNION {[1..k -> WordPool] : k \in 1..MaxWords}
ReplaceService(words) == SelectSeq(words, LAMBDA w : w # "service")
\* Service.__init__ on such a class: name or <derived>, as words.
NameWords(words, ovr) == IF ovr # "" THEN <<ovr>> ELSE ReplaceService(words)

Names == Overrides \cup {DerivedName(cls) : cls \in Classes}
Lookups == Names \cup {Missing}

\* A mapping str -> value as a set of <<key, value>> pairs.
Keys(m) == {p[1] : p \in m}
\* Variant of the update that replaces the mapping by the new one.
DictReplace(m, new) == new

\* dict.update: the keys of new win.
DictUpdate(m, new) == {p \in m : p[1] \notin Keys(new)} \cup new

\* ServiceConfiguration(**raw): pydantic fills the defaults.
ServiceConfiguration(raw) ==
    [enabled |-> IF "enabled" \in DOMAIN raw THEN raw.enabled ELSE TRUE,
     autostart |-> IF "autostart" \in DOMAIN raw THEN raw.autostart ELSE FALSE,
     metadata |-> IF "metadata" \in DOMAIN raw THEN raw.metadata ELSE {}]

\* The configurations handed to configure() by direct callers.
ServiceConfigs ==
    {ServiceConfiguration([metadata |-> {<<"k1", 2>>}])}

\* The configurations handed to configure() one after the other: every
\* metadata mapping over two keys and two values.
MetaKeys == {"k1", "k2"}
MetaValues == {1, 2}
Metadatas ==
    {m \in SUBSET (MetaKeys \X MetaValues) :
        \A p, q \in m : p[1] = q[1] => p = q}
ConfigureArgs == {ServiceConfiguration([metadata |-> m]) : m \in Metadatas}

\* ApplicationConfiguration.services: name -> raw entry, as the
\* configuration source supplied it.  Three applications are explored.
AllEnabled == [n \in Names |-> [autostart |-> TRUE]]
Mixed == [n \in {"a"} |-> [enabled |-> FALSE, metadata |-> {<<"k1", 1>>}]]
Partial ==
    [n \in {"a", "monitoring"} |->
        IF n = "a" THEN [enabled |-> FALSE, autostart |-> TRUE]
        ELSE [enabled |-> TRUE]]
AppConfigs == {AllEnabled, Mixed, Partial}

\* _collect_metrics(): the keys it returns (values abstracted to one).
Metrics == {<<"cpu_percent", 1>>}

\* ServiceStatus(state=INITIALIZED, error=None, metadata={})
InitialStatus == [state |-> INITIALIZED, error |-> Null, metadata |-> {}]

\* ServiceStatus(**raw): pydantic keeps the declared fields, fills the
\* defaults and leaves out every other key it is given.
ServiceStatus(raw) ==
    [state |-> raw.state,
     error |-> IF "error" \in DOMAIN raw THEN raw.error ELSE Null,
     metadata |-> IF "metadata" \in DOMAIN raw THEN raw.metadata ELSE {}]

\* JSON values: null, strings, numbers, and objects as sets of
\* <<key, value>> members.
JNull == <<"null">>
JString(x) == <<"string", x>>
JNumber(x) == <<"number", x>>
JObject(members) == <<"object", members>>
Member(obj, k) == The({p[2] : p \in {q \in obj[2] : q[1] = k}})
HasMember(obj, k) == \E p \in obj[2] : p[1] = k

\* The wire representation of a ServiceStatus (model_dump_json, FastAPI's
\* response encoding): one member per declared field, the state by its
\* value, None as null.
Serialize(st) ==
    JObject({<<"state", JString(st.state)>>,
             <<"error", IF st.error = Null THEN JNull
                        ELSE JString(The(st.error))>>,
             <<"metadata",
               JObject({<<p[1], JNumber(p[2])>> : p \in st.metadata})>>})

\* A JSON value as the Python value it decodes to.
Decode(j) ==
    CASE j[1] = "null" -> Null
      [] j[1] = "string" -> j[2]
      [] j[1] = "number" -> j[2]
      [] j[1] = "object" -> {<<p[1], p[2][2]>> : p \in j[2]}

\* The wire representation parsed back (model_validate_json): the members
\* that name a declared field, an Optional wrapped again.
ParseStatus(w) ==
    LET e == Member(w, "error")
    IN ServiceStatus(
           [state |-> Decode(Member(w, "state")),
            error |-> IF e = JNull THEN Null ELSE Some(Decode(e)),
            metadata |-> Decode(Member(w, "metadata"))])

\* A name with no instance bound to it.
NoService == [inst |-> 0, status |-> InitialStatus, config |-> Null, task |-> 0]

\* ------------------------------------------------------------------- state
VARIABLES
    config,          \* Application._config.services
    setup_complete,  \* Application._setup_complete
    initialized,     \* Application._initialized
    api,             \* number of FastAPI instances created (self.api)
    app_state,       \* Application._state
    order,           \* keys of Application._services, in insertion order
    svc,             \* name -> the Service instance bound to it
    tasks,           \* monitor task id -> [svc, st, exc]
    frames,          \* caller -> the suspended call it is inside
    last,            \* what the call that returned in the last step returned
    path             \* name -> the status values it took in the last step

vars == <<config, setup_complete, initialized, api, app_state, order, svc,
          tasks, frames, last, path>>

Callers == 1..MaxCallers
TaskIds == 1..MaxTasks

Registered == {order[i] : i \in 1..Len(order)}

Idle == [op |-> "idle", svc |-> "", pc |-> "idle", idx |-> 0, size |-> 0,
         log |-> <<>>, task |-> 0]

NoTask == [svc |-> "", st |-> "none", exc |-> Null]

\* What the call that ran in a step gave its caller: how it ended (res;
\* "pending" when it did not return but suspended), the message of the
\* exception, or the argument of set_error, configure or set_state (exc), the
\* instance returned (ret)
\* and, of a loop over the registry, its attempts (log: <<name, exception,
\* state at return, Application._state at the time>>) and the size of the
\* registry when it began.
Result(op, n, res, exc, ret, log) ==
    [op |-> op, svc |-> n, res |-> res, exc |-> exc, ret |-> ret, log |-> log,
     size |-> 0]

\* No call ran in this step (a step of a monitor task).
NoReturn == Result("none", "", "none", Null, Null, <<>>)

\* No service's status was assigned in this step.
NoPath == [n \in Names |-> <<>>]

\* state and error of a status, as a status read would show them
Snap(s) == [state |-> s.status.state, error |-> s.status.error]

\* The caller a new call runs as: the lowest idle one (callers are anonymous).
FreeCaller(c) ==
    /\ frames[c] = Idle
    /\ \A d \in Callers : d < c => frames[d] # Idle

\* Variant of the construction that begins in STARTING.
InitStarting ==
    /\ config \in AppConfigs
    /\ setup_complete = FALSE
    /\ initialized = FALSE
    /\ api = 0
    /\ app_state = STARTING
    /\ order = <<>>
    /\ svc = [n \in Names |-> NoService]
    /\ tasks = [t \in TaskIds |-> NoTask]
    /\ frames = [c \in Callers |-> Idle]
    /\ last = NoReturn
    /\ path = NoPath

\* Application.__init__
Init ==
    /\ config \in AppConfigs
    /\ setup_complete = FALSE
    /\ initialized = FALSE
    /\ api = 0
    /\ app_state = STOPPED
    /\ order = <<>>
    /\ svc = [n \in Names |-> NoService]
    /\ tasks = [t \in TaskIds |-> NoTask]
    /\ frames = [c \in Callers |-> Idle]
    /\ last = NoReturn
    /\ path = NoPath

\* --------------------------------------------------------- Service (base)
\* Service.configure
ConfigureService(s, cfg) ==
    [s EXCEPT !.config = Some(cfg),
              !.status.metadata = DictUpdate(@, cfg.metadata)]

\* Service.set_error
SetErrorService(s, msg) == [s EXCEPT !.status.error = Some(msg)]

\* Service.__init__ (MonitoringService.__init__ adds _monitor_task = None)
NewService(id) == [NoService EXCEPT !.inst = id]

\* Variant of the base start that keeps the error of an earlier failure.
StartBaseKeepsError(s) == [s EXCEPT !.status.state = STARTING]

\* Service.start, the base part
StartBase(s) == [s EXCEPT !.status.state = STARTING, !.status.error = Null]

\* Service.stop, the base part
StopBase(s) == [s EXCEPT !.status.state = STOPPING]

\* ------------------------------------------------------- MonitoringService
UnusedTasks(tk) == {t \in TaskIds : tk[t].st = "none"}
FreshTask(tk) == CHOOSE x \in UnusedTasks(tk) : \A y \in UnusedTasks(tk) : x <= y

\* MonitoringService.start, create_task succeeded
StartDone(s, t) == [s EXCEPT !.task = t, !.status.state = RUNNING]

\* MonitoringService.start, the except branch
StartFailed(s, e) ==
    SetErrorService(s, <<"Failed to start monitoring: ", e>>)

\* MonitoringService.start.  fail is what create_task raises (Null: nothing).
\* Nothing in it suspends.
ServiceStart(s, n, tk, fail) ==
    LET s1 == StartBase(s)
        t == FreshTask(tk)
    IN IF fail = Null
       THEN [s |-> StartDone(s1, t),
             tasks |-> [tk EXCEPT ![t] = [svc |-> n, st |-> "waiting",
                                          exc |-> Null]],
             exc |-> Null,
             trail |-> <<Snap(s), Snap(s1), Snap(StartDone(s1, t))>>]
       ELSE [s |-> StartFailed(s1, The(fail)),
             tasks |-> tk,
             exc |-> fail,
             trail |-> <<Snap(s), Snap(s1),
                         Snap(StartFailed(s1, The(fail)))>>]

\* Variant of the end of stop() that leaves the state alone.
StopDoneKeepsState(s) == [s EXCEPT !.task = 0]

\* MonitoringService.stop, after the task was awaited (or there was none)
StopDone(s) == [s EXCEPT !.task = 0, !.status.state = STOPPED]

\* Task.cancel(): a request, delivered when the task next runs
Cancel(tk, t) ==
    [tk EXCEPT ![t].st = IF @ = "waiting" THEN "cancelling" ELSE @]

\* MonitoringService.stop up to `await self._monitor_task`.  Awaiting a task
\* that is not done suspends the caller; a done task gives its result at
\* once: CancelledError is swallowed, any other exception goes on.
StopBegin(s, tk) ==
    LET s1 == StopBase(s)
        t == s.task
    IN IF t = 0 \/ (t # 0 /\ tk[t].st = "cancelled")
       THEN [s |-> StopDone(s1), tasks |-> tk, exc |-> Null,
             suspended |-> FALSE, task |-> 0,
             trail |-> <<Snap(s), Snap(s1), Snap(StopDone(s1))>>]
       ELSE IF tk[t].st = "failed"
       THEN [s |-> s1, tasks |-> tk, exc |-> tk[t].exc,
             suspended |-> FALSE, task |-> 0,
             trail |-> <<Snap(s), Snap(s1)>>]
       ELSE [s |-> s1, tasks |-> Cancel(tk, t), exc |-> Null,
             suspended |-> TRUE, task |-> t,
             trail |-> <<Snap(s), Snap(s1)>>]

\* MonitoringService.stop from the await on, the awaited task tr being done
StopResume(s, tr) ==
    IF tr.st = "cancelled"
    THEN [s |-> StopDone(s), exc |-> Null,
          trail |-> <<Snap(s), Snap(StopDone(s))>>]
    ELSE [s |-> s, exc |-> tr.exc, trail |-> <<Snap(s)>>]

\* ------------------------------------------------------------ Application
\* Variant of initialize that sets everything up on every call.
InitializeAgain ==
    /\ api' = api + 1
    /\ setup_complete' = TRUE
    /\ initialized' = TRUE
    /\ last' = Result("initialize", "", "ok", Null, Null, <<>>)
    /\ path' = NoPath
    /\ UNCHANGED <<config, app_state, order, svc, tasks, frames>>

\* Application.initialize
Initialize ==
    /\ IF setup_complete
       THEN UNCHANGED <<setup_complete, initialized, api>>
       ELSE /\ api' = api + 1
            /\ setup_complete' = TRUE
            /\ initialized' = TRUE
    /\ last' = Result("initialize", "", "ok", Null, Null, <<>>)
    /\ path' = NoPath
    /\ UNCHANGED <<config, app_state, order, svc, tasks, frames>>

\* Application.register_service, the service configured from its entry
RegisteredInstance(id, name) ==
    IF name \in DOMAIN config
    THEN ConfigureService(NewService(id), ServiceConfiguration(config[name]))
    ELSE NewService(id)

\* Application.register_service, once the name is known to be new
StoreService(name) ==
    /\ svc' = [svc EXCEPT ![name] = RegisteredInstance(Len(order) + 1, name)]
    /\ order' = Append(order, name)
    /\ last' = Result("register", name, "ok", Null, Some(Len(order) + 1),
                      <<>>)

\* Variant of the lookup that finds no name taken.
NeverRegistered(name) == FALSE

\* Variant of the lookup that knows the most recent registration only.
RegisteredLast(name) == order # <<>> /\ order[Len(order)] = name

\* `if service.name in self._services`
AlreadyRegistered(name) == name \in Registered

\* Application.register_service.  The instance is constructed before the
\* name is looked up; a rejected instance is dropped and leaves no trace.
RegisterService(cls, ovr) ==
    /\ IF ~setup_complete
       THEN /\ last' = Result("register", ServiceName(cls, ovr),
                              "RuntimeError", Null, Null, <<>>)
            /\ UNCHANGED <<order, svc>>
       ELSE LET name == ServiceName(cls, ovr)
            IN IF AlreadyRegistered(name)
               THEN /\ last' = Result("register", name, "ValueError", Null,
                                      Null, <<>>)
                    /\ UNCHANGED <<order, svc>>
               ELSE StoreService(name)
    /\ path' = NoPath
    /\ UNCHANGED <<config, setup_complete, initialized, api, app_state, tasks,
                   frames>>

\* Variant of the lookup that takes the entry out of the registry.
GetServicePop(n) ==
    /\ last' = Result("get_service", n, "ok", Null,
                      IF n \in Registered THEN Some(svc[n].inst) ELSE Null,
                      <<>>)
    /\ order' = SelectSeq(order, LAMBDA x : x # n)
    /\ svc' = [m \in Names |-> IF m = n THEN NoService ELSE svc[m]]
    /\ path' = NoPath
    /\ UNCHANGED <<config, setup_complete, initialized, api, app_state, tasks,
                   frames>>

\* Variant of the lookup that gives the first registered instance for any
\* name.
GetServiceFirst(n) ==
    /\ last' = Result("get_service", n, "ok", Null,
                      IF order # <<>> THEN Some(svc[order[1]].inst) ELSE Null,
                      <<>>)
    /\ path' = NoPath
    /\ UNCHANGED <<config, setup_complete, initialized, api, app_state, order,
                   svc, tasks, frames>>

\* Application.get_service
GetService(n) ==
    /\ last' = Result("get_service", n, "ok", Null,
                      IF n \in Registered THEN Some(svc[n].inst) ELSE Null,
                      <<>>)
    /\ path' = NoPath
    /\ UNCHANGED <<config, setup_complete, initialized, api, app_state, order,
                   svc, tasks, frames>>

\* set_state(state) of the manager API: the application-wide state, and
\* nothing else
SetState(s) ==
    /\ app_state' = s
    /\ last' = Result("set_state", "", "ok", Some(s), Null, <<>>)
    /\ path' = NoPath
    /\ UNCHANGED <<config, setup_complete, initialized, api, order, svc, tasks,
                   frames>>

\* A direct caller's service.configure(cfg) on a registered instance
Configure(n, cfg) ==
    /\ n \in Registered
    /\ svc' = [svc EXCEPT ![n] = ConfigureService(@, cfg)]
    /\ last' = Result("configure", n, "ok", Some(cfg), Null, <<>>)
    /\ path' = NoPath
    /\ UNCHANGED <<config, setup_complete, initialized, api, app_state, order,
                   tasks, frames>>

\* GET /services/{name}: a status made of the state, error and metadata of
\* the service and of is_configured = ic goes out as the response (exc: the
\* fields the status was made from; ret: the response body)
StatusRoute(n, ic) ==
    /\ api > 0
    /\ n \in Registered
    /\ LET raw == [state |-> svc[n].status.state,
                   error |-> svc[n].status.error,
                   metadata |-> svc[n].status.metadata,
                   is_configured |-> ic]
       IN last' = Result("http_status", n, "HTTP200", Some(raw),
                         Some(Serialize(ServiceStatus(raw))), <<>>)
    /\ path' = NoPath
    /\ UNCHANGED <<config, setup_complete, initialized, api, app_state, order,
                   svc, tasks, frames>>

\* service_class(name): the constructor gives the instance its name (exc:
\* the class and the override; ret: the name)
Construct(words, ovr) ==
    /\ last' = Result("construct", "", "ok", Some(<<words, ovr>>),
                      Some(NameWords(words, ovr)), <<>>)
    /\ path' = NoPath
    /\ UNCHANGED <<config, setup_complete, initialized, api, app_state, order,
                   svc, tasks, frames>>

\* A direct caller's service.set_error(msg) on a registered instance
SetError(n, msg) ==
    /\ n \in Registered
    /\ svc' = [svc EXCEPT ![n] = SetErrorService(@, <<msg>>)]
    /\ last' = Result("set_error", n, "ok", Some(msg), Null, <<>>)
    /\ path' = [NoPath EXCEPT ![n] =
                    <<Snap(svc[n]), Snap(SetErrorService(svc[n], <<msg>>))>>]
    /\ UNCHANGED <<config, setup_complete, initialized, api, app_state, order,
                   tasks, frames>>

\* Variant of the awaiting function that swallows what the service raised.
ReturnsQuietly(op, n, r) ==
    /\ svc' = [svc EXCEPT ![n] = r.s]
    /\ path' = [NoPath EXCEPT ![n] = r.trail]
    /\ last' = Result(op, n, IF op \in {"http_start", "http_stop"}
                             THEN "HTTP200" ELSE "ok",
                      Null, Null, <<>>)

\* Variant of the return that writes the outcome to every registered service.
ReturnsToAll(op, n, r) ==
    /\ svc' = [m \in Names |->
                  IF m = n THEN r.s
                  ELSE IF m \in Registered
                       THEN [svc[m] EXCEPT !.status = r.s.status]
                       ELSE svc[m]]
    /\ path' = [NoPath EXCEPT ![n] = r.trail]
    /\ last' = Result(op, n, IF r.exc = Null THEN "ok" ELSE "Exception",
                      r.exc, Null, <<>>)

\* The HTTP handlers wrap the call in try / except Exception: set_error
HttpOps == {"http_start", "http_stop"}

\* What the function that awaited service.start() / service.stop() on n
\* does with the outcome r, and what it gives its own caller
Returns(op, n, r) ==
    LET handled == op \in HttpOps /\ r.exc # Null
        s2 == IF handled THEN SetErrorService(r.s, <<The(r.exc)>>) ELSE r.s
    IN /\ svc' = [svc EXCEPT ![n] = s2]
       /\ path' = [NoPath EXCEPT ![n] =
                       IF handled THEN Append(r.trail, Snap(s2)) ELSE r.trail]
       /\ last' = Result(op, n,
                         IF op \in HttpOps
                         THEN (IF r.exc = Null THEN "HTTP200" ELSE "HTTP500")
                         ELSE (IF r.exc = Null THEN "ok" ELSE "Exception"),
                         r.exc, Null, <<>>)

\* Variant of a refusal that always reports the name as not found.
RefusedAsNotFound(op, n, res) ==
    /\ last' = Result(op, n, IF op \in {"http_start", "http_stop"}
                             THEN "HTTP404" ELSE "ValueError",
                      Null, Null, <<>>)
    /\ path' = NoPath
    /\ UNCHANGED <<svc, tasks, frames>>

\* Variant of a refusal that tells the caller nothing.
RefusedQuietly(op, n, res) ==
    /\ last' = Result(op, n, "ok", Null, Null, <<>>)
    /\ path' = NoPath
    /\ UNCHANGED <<svc, tasks, frames>>

\* A call that finds nothing to act on: it raises, and assigns nothing
Refused(op, n, res) ==
    /\ last' = Result(op, n, res, Null, Null, <<>>)
    /\ path' = NoPath
    /\ UNCHANGED <<svc, tasks, frames>>

\* await service.start() on the registered n, and on to the caller
Started(op, n, fail) ==
    LET r == ServiceStart(svc[n], n, tasks, fail)
    IN /\ tasks' = r.tasks
       /\ Returns(op, n, r)
       /\ UNCHANGED frames

\* await service.stop() on the registered n, as far as it gets
Stopped(c, op, n) ==
    LET r == StopBegin(svc[n], tasks)
    IN /\ tasks' = r.tasks
       /\ IF r.suspended
          THEN /\ svc' = [svc EXCEPT ![n] = r.s]
               /\ path' = [NoPath EXCEPT ![n] = r.trail]
               /\ last' = Result(op, n, "pending", Null, Null, <<>>)
               /\ frames' = [frames EXCEPT ![c] =
                                [Idle EXCEPT !.op = op, !.svc = n,
                                             !.pc = "await", !.task = r.task]]
          ELSE /\ Returns(op, n, r)
               /\ UNCHANGED frames

\* Application.start_service
StartService(n, fail) ==
    /\ UnusedTasks(tasks) # {}
    /\ IF ~setup_complete
       THEN Refused("start_service", n, "RuntimeError")
       ELSE IF n \notin Registered
            THEN Refused("start_service", n, "ValueError")
            ELSE Started("start_service", n, fail)
    /\ UNCHANGED <<config, setup_complete, initialized, api, app_state, order>>

\* stop_service(name) of the manager API: the lookup of start_service, then
\* Service.stop()
StopService(c, n) ==
    /\ FreeCaller(c)
    /\ IF n \notin Registered
       THEN Refused("stop_service", n, "ValueError")
       ELSE Stopped(c, "stop_service", n)
    /\ UNCHANGED <<config, setup_complete, initialized, api, app_state, order>>

\* POST /services/{service_name}/start (the route exists once initialize
\* has run setup_core_routes)
HttpStartService(n, fail) ==
    /\ api > 0
    /\ UnusedTasks(tasks) # {}
    /\ IF n \notin Registered
       THEN Refused("http_start", n, "HTTP404")
       ELSE Started("http_start", n, fail)
    /\ UNCHANGED <<config, setup_complete, initialized, api, app_state, order>>

\* POST /services/{service_name}/stop
HttpStopService(c, n) ==
    /\ FreeCaller(c)
    /\ api > 0
    /\ IF n \notin Registered
       THEN Refused("http_stop", n, "HTTP404")
       ELSE Stopped(c, "http_stop", n)
    /\ UNCHANGED <<config, setup_complete, initialized, api, app_state, order>>

\* A direct caller's await service.start() on a registered instance
Start(n, fail) ==
    /\ UnusedTasks(tasks) # {}
    /\ n \in Registered
    /\ Started("start", n, fail)
    /\ UNCHANGED <<config, setup_complete, initialized, api, app_state, order>>

\* A direct caller's await service.stop() on a registered instance
Stop(c, n) ==
    /\ FreeCaller(c)
    /\ n \in Registered
    /\ Stopped(c, "stop", n)
    /\ UNCHANGED <<config, setup_complete, initialized, api, app_state, order>>

\* Variant of the test that also lets through a name with no entry.
EnabledUnlessDisabled(n) ==
    n \notin DOMAIN config \/ ServiceConfiguration(config[n]).enabled

\* `name in self._config.services and self._config.services[name].enabled`
Enabled(n) ==
    n \in DOMAIN config /\ ServiceConfiguration(config[n]).enabled

\* Variant of the loops' handler that catches nothing.
ExceptNothing(exc) == FALSE

\* `except Exception as e:` around service.start() / service.stop() in the
\* loops of Application.start and Application.stop: does it catch exc
ExceptException(exc) == TRUE

\* Variant of the iteration that goes through the registry backwards.
ItemsReversed(idx) == order[Len(order) + 1 - idx]

\* self._services.items() / .values(): the idx-th key, in insertion order
Items(idx) == order[idx]

\* The loops work on w = [svc, tasks, path, log, size, how, idx, task, exc,
\* app]: how is "" while the loop runs, then "done", "await" (suspended in
\* the stop of order[idx]) or "raised" (exc left the loop); app is
\* Application._state while the loop runs.
Loop0 == [svc |-> svc, tasks |-> tasks, path |-> NoPath, log |-> <<>>,
          size |-> Len(order), how |-> "", idx |-> 1, task |-> 0,
          exc |-> Null, app |-> app_state]

\* service n gave outcome r: the log line, and whether the loop goes on
Attempted(w, n, r) ==
    [w EXCEPT !.svc[n] = r.s,
              !.path[n] = r.trail,
              !.log = Append(@, <<n, r.exc, r.s.status.state, w.app>>),
              !.how = IF r.exc # Null /\ ~ExceptException(r.exc)
                      THEN "raised" ELSE "",
              !.exc = IF r.exc # Null /\ ~ExceptException(r.exc)
                      THEN r.exc ELSE Null]

\* Application.start, the loop over self._services.items() from idx on.
\* The services in F fail to start, with e.
RECURSIVE StartEnabled(_, _, _, _)
StartEnabled(w, idx, F, e) ==
    IF idx > w.size
    THEN [w EXCEPT !.how = "done"]
    ELSE LET n == Items(idx)
         IN IF ~Enabled(n)
            THEN StartEnabled(w, idx + 1, F, e)
            ELSE LET r == ServiceStart(w.svc[n], n, w.tasks,
                                       IF n \in F THEN Some(e) ELSE Null)
                     w1 == Attempted([w EXCEPT !.tasks = r.tasks], n, r)
                 IN IF w1.how = "raised" THEN w1
                    ELSE StartEnabled(w1, idx + 1, F, e)

\* Application.stop, the loop over self._services.values() from idx on.
\* The dict iterator raises RuntimeError when the dict changed size.
\* The element of a one-element set.  {e(v) : v \in {x}} gives x a name, v,
\* inside e, as LET does, and has x computed once.
Only(S) == CHOOSE x \in S : TRUE

RECURSIVE StopAll(_, _)
StopAll(w, idx) ==
    Only({IF Len(order) # v.size
          THEN [v EXCEPT !.how = "raised", !.exc = Some("RuntimeError")]
          ELSE IF idx > v.size
          THEN [v EXCEPT !.how = "done"]
          ELSE Only({IF r.suspended
                     THEN [v EXCEPT !.svc[Items(idx)] = r.s,
                                    !.tasks = r.tasks,
                                    !.path[Items(idx)] = r.trail,
                                    !.how = "await",
                                    !.idx = idx, !.task = r.task]
                     ELSE Only({IF w1.how = "raised" THEN w1
                                ELSE StopAll(w1, idx + 1) :
                                w1 \in {Attempted([v EXCEPT !.tasks = r.tasks],
                                                  Items(idx), r)}}) :
                     r \in {StopBegin(v.svc[Items(idx)], v.tasks)}}) :
          v \in {w}})

\* Application.start up to `await server.serve()`
ApplicationStart(c, F, e) ==
    /\ FreeCaller(c)
    /\ Cardinality(UnusedTasks(tasks)) >= Len(order)
    /\ F \subseteq Registered
    /\ IF setup_complete
       THEN UNCHANGED <<setup_complete, initialized, api>>
       ELSE /\ api' = api + 1
            /\ setup_complete' = TRUE
            /\ initialized' = TRUE
    /\ LET w == StartEnabled([Loop0 EXCEPT !.app = STARTING], 1, F, e)
       IN /\ svc' = w.svc
          /\ tasks' = w.tasks
          /\ path' = w.path
          /\ IF w.how = "raised"
             THEN /\ app_state' = w.app
                  /\ last' = [Result("app_start", "", "Exception", w.exc,
                                     Null, w.log) EXCEPT !.size = w.size]
                  /\ UNCHANGED frames
             ELSE /\ app_state' = RUNNING
                  /\ last' = [Result("app_start", "", "pending", Null, Null,
                                     w.log) EXCEPT !.size = w.size]
                  /\ frames' = [frames EXCEPT ![c] =
                                   [Idle EXCEPT !.op = "app_start",
                                                !.pc = "serve",
                                                !.size = w.size,
                                                !.log = w.log]]
    /\ UNCHANGED <<config, order>>

\* Variant of the stop that is in STOPPED from its first suspension on.
StopGoesOnStopped(c, w) ==
    /\ svc' = w.svc
    /\ tasks' = w.tasks
    /\ path' = w.path
    /\ IF w.how = "await"
       THEN /\ app_state' = STOPPED
            /\ last' = [Result("app_stop", "", "pending", Null, Null, w.log)
                        EXCEPT !.size = w.size]
            /\ frames' = [frames EXCEPT ![c] =
                             [Idle EXCEPT !.op = "app_stop", !.pc = "await",
                                          !.svc = Items(w.idx),
                                          !.idx = w.idx, !.size = w.size,
                                          !.log = w.log, !.task = w.task]]
       ELSE /\ app_state' = STOPPED
            /\ last' = [Result("app_stop", "",
                               IF w.how = "done" THEN "ok" ELSE "Exception",
                               w.exc, Null, w.log) EXCEPT !.size = w.size]
            /\ frames' = [frames EXCEPT ![c] = Idle]

\* Application.stop from the point w the loop got to
StopGoesOn(c, w) ==
    /\ svc' = w.svc
    /\ tasks' = w.tasks
    /\ path' = w.path
    /\ IF w.how = "await"
       THEN /\ app_state' = w.app
            /\ last' = [Result("app_stop", "", "pending", Null, Null, w.log)
                        EXCEPT !.size = w.size]
            /\ frames' = [frames EXCEPT ![c] =
                             [Idle EXCEPT !.op = "app_stop", !.pc = "await",
                                          !.svc = Items(w.idx),
                                          !.idx = w.idx, !.size = w.size,
                                          !.log = w.log, !.task = w.task]]
       ELSE /\ app_state' = IF w.how = "done" THEN STOPPED ELSE w.app
            /\ last' = [Result("app_stop", "",
                               IF w.how = "done" THEN "ok" ELSE "Exception",
                               w.exc, Null, w.log) EXCEPT !.size = w.size]
            /\ frames' = [frames EXCEPT ![c] = Idle]

\* Application.stop
ApplicationStop(c) ==
    /\ FreeCaller(c)
    /\ IF ~setup_complete
       THEN /\ Refused("app_stop", "", "ok")
            /\ UNCHANGED app_state
       ELSE StopGoesOn(c, StopAll([Loop0 EXCEPT !.app = STOPPING], 1))
    /\ UNCHANGED <<config, setup_complete, initialized, api, order>>

\* Variant of the test that takes a task whose cancellation was only
\* requested for a finished one.
DoneOnRequest(t) == tasks[t].st \in {"cancelling", "cancelled", "failed"}

\* Task.done(): the task ended, cancelled or with an exception
Done(t) == tasks[t].st \in {"cancelled", "failed"}

\* The task a suspended stop() awaits is done: stop() goes on, and so does
\* the function that awaited it
Awaited(c) ==
    /\ frames[c].pc = "await"
    /\ Done(frames[c].task)
    /\ LET f == frames[c]
           n == f.svc
           r == StopResume(svc[n], tasks[f.task])
       IN IF f.op = "app_stop"
          THEN LET w0 == [Loop0 EXCEPT !.log = f.log, !.size = f.size]
                   w1 == Attempted(w0, n, r)
               IN \E w \in {IF w1.how = "raised" THEN w1
                            ELSE StopAll(w1, f.idx + 1)} : StopGoesOn(c, w)
          ELSE /\ Returns(f.op, n, r)
               /\ frames' = [frames EXCEPT ![c] = Idle]
               /\ UNCHANGED <<tasks, app_state>>
    /\ UNCHANGED <<config, setup_complete, initialized, api, order>>

\* server.serve() returns, and so does Application.start ("serve" in last:
\* the return of Application.start from the await of the server)
ServerReturns(c) ==
    /\ frames[c].pc = "serve"
    /\ last' = Result("serve", "", "ok", Null, Null, <<>>)
    /\ frames' = [frames EXCEPT ![c] = Idle]
    /\ path' = NoPath
    /\ UNCHANGED <<config, setup_complete, initialized, api, app_state, order,
                   svc, tasks>>

\* server.serve() raises e: state ERROR, and the exception goes on
ServerRaises(c, e) ==
    /\ frames[c].pc = "serve"
    /\ app_state' = ERROR
    /\ last' = Result("serve", "", "Exception", Some(e), Null, <<>>)
    /\ frames' = [frames EXCEPT ![c] = Idle]
    /\ path' = NoPath
    /\ UNCHANGED <<config, setup_complete, initialized, api, order, svc, tasks>>

\* ------------------------------------------ MonitoringService._monitor_loop
\* One turn of the loop: metrics collected, metadata updated, sleep
Collect(t) ==
    /\ tasks[t].st = "waiting"
    /\ svc' = [svc EXCEPT ![tasks[t].svc].status.metadata =
                              DictUpdate(@, Metrics)]
    /\ last' = NoReturn
    /\ path' = NoPath
    /\ UNCHANGED <<config, setup_complete, initialized, api, app_state, order,
                   tasks, frames>>

\* Variant of the turn in which the collection error ends the loop.
CollectRaisesEnds(t, e) ==
    /\ tasks[t].st = "waiting"
    /\ LET n == tasks[t].svc
       IN /\ svc' = [svc EXCEPT ![n] = SetErrorService(@, <<e>>)]
          /\ path' = [NoPath EXCEPT ![n] =
                          <<Snap(svc[n]),
                            Snap(SetErrorService(svc[n], <<e>>))>>]
    /\ tasks' = [tasks EXCEPT ![t].st = "failed", ![t].exc = Some(e)]
    /\ last' = NoReturn
    /\ UNCHANGED <<config, setup_complete, initialized, api, app_state, order,
                   frames>>

\* One turn of the loop: _collect_metrics raises e, set_error(str(e)), sleep
CollectRaises(t, e) ==
    /\ tasks[t].st = "waiting"
    /\ LET n == tasks[t].svc
       IN /\ svc' = [svc EXCEPT ![n] = SetErrorService(@, <<e>>)]
          /\ path' = [NoPath EXCEPT ![n] =
                          <<Snap(svc[n]),
                            Snap(SetErrorService(svc[n], <<e>>))>>]
    /\ last' = NoReturn
    /\ UNCHANGED <<config, setup_complete, initialized, api, app_state, order,
                   tasks, frames>>

\* _collect_metrics raises and the handler's own logger.error call raises e:
\* the exception leaves the loop and the task ends with it
HandlerRaises(t, e) ==
    /\ tasks[t].st = "waiting"
    /\ tasks' = [tasks EXCEPT ![t].st = "failed", ![t].exc = Some(e)]
    /\ last' = NoReturn
    /\ path' = NoPath
    /\ UNCHANGED <<config, setup_complete, initialized, api, app_state, order,
                   svc, frames>>

\* Variant of the delivery in which the loop's handler catches the
\* cancellation, as it does an error, and the loop goes on.
CancelledCaught(t) ==
    /\ tasks[t].st = "cancelling"
    /\ tasks' = [tasks EXCEPT ![t].st = "waiting"]
    /\ last' = NoReturn
    /\ path' = NoPath
    /\ UNCHANGED <<config, setup_complete, initialized, api, app_state, order,
                   svc, frames>>

\* CancelledError is thrown into the task where it waits; it is no
\* Exception, the loop's handler lets it through and the task ends
Cancelled(t) ==
    /\ tasks[t].st = "cancelling"
    /\ tasks' = [tasks EXCEPT ![t].st = "cancelled"]
    /\ last' = NoReturn
    /\ path' = NoPath
    /\ UNCHANGED <<config, setup_complete, initialized, api, app_state, order,
                   svc, frames>>

\* ---------------------------------------------------------- specifications
Failure == {Null} \cup {Some(e) : e \in Msgs}

Next ==
    \/ Initialize
    \/ \E cls \in Classes, ovr \in Overrides \cup {""} :
           RegisterService(cls, ovr)
    \/ \E n \in Lookups : GetService(n)
    \/ \E n \in Names, cfg \in ServiceConfigs : Configure(n, cfg)
    \/ \E n \in Names, m \in Msgs : SetError(n, m)
    \/ \E n \in Names, fail \in Failure : Start(n, fail)
    \/ \E c \in Callers, n \in Names : Stop(c, n)
    \/ \E n \in Lookups, fail \in Failure : StartService(n, fail)
    \/ \E n \in Lookups, fail \in Failure : HttpStartService(n, fail)
    \/ \E c \in Callers, n \in Lookups : HttpStopService(c, n)
    \/ \E c \in Callers, n \in Lookups : StopService(c, n)
    \/ \E c \in Callers, F \in SUBSET Names, e \in Msgs :
           ApplicationStart(c, F, e)
    \/ \E c \in Callers : ApplicationStop(c)
    \/ \E c \in Callers : Awaited(c)
    \/ \E c \in Callers : ServerReturns(c)
    \/ \E c \in Callers, e \in Msgs : ServerRaises(c, e)
    \/ \E t \in TaskIds : Collect(t)
    \/ \E t \in TaskIds, e \in Msgs : CollectRaises(t, e)
    \/ \E t \in TaskIds, e \in Msgs : HandlerRaises(t, e)
    \/ \E t \in TaskIds : Cancelled(t)

\* The whole application.
Spec == Init /\ [][Next]_vars

\* The whole is explored in three parts.  Each part keeps the operations
\* named below, with every interleaving of them, and leaves the others out.

\* One service and the calls made on the instance itself: configure,
\* set_error, start and stop by any number of callers at once, and the
\* service's monitor task.
NextService ==
    \/ Initialize
    \/ RegisterService("MonitoringService", "")
    \/ \E n \in Names, cfg \in ServiceConfigs : Configure(n, cfg)
    \/ \E n \in Names, m \in Msgs : SetError(n, m)
    \/ \E n \in Names, fail \in Failure : Start(n, fail)
    \/ \E c \in Callers, n \in Names : Stop(c, n)
    \/ \E c \in Callers : Awaited(c)
    \/ \E t \in TaskIds : Collect(t)
    \/ \E t \in TaskIds, e \in Msgs : CollectRaises(t, e)
    \/ \E t \in TaskIds, e \in Msgs : HandlerRaises(t, e)
    \/ \E t \in TaskIds : Cancelled(t)

SpecService == Init /\ [][NextService]_vars

\* The event loop runs every task that is ready: a task whose cancellation
\* was requested gets the CancelledError, and a caller whose awaited task is
\* done goes on.  Nothing makes a caller call, or a collection fail.
Scheduling ==
    /\ \A t \in TaskIds : WF_vars(Cancelled(t))
    /\ \A c \in Callers : WF_vars(Awaited(c))

\* One service started and stopped on the instance itself by any number of
\* callers at once, and its monitor task in every turn of its loop, under
\* that scheduling.  One application (the configuration AllEnabled).
InitTeardown == Init /\ config = AllEnabled

NextTeardown ==
    \/ Initialize
    \/ RegisterService("MonitoringService", "")
    \/ \E n \in Names, fail \in Failure : Start(n, fail)
    \/ \E c \in Callers, n \in Names : Stop(c, n)
    \/ \E c \in Callers : Awaited(c)
    \/ \E t \in TaskIds : Collect(t)
    \/ \E t \in TaskIds, e \in Msgs : CollectRaises(t, e)
    \/ \E t \in TaskIds, e \in Msgs : HandlerRaises(t, e)
    \/ \E t \in TaskIds : Cancelled(t)

SpecTeardown == InitTeardown /\ [][NextTeardown]_vars /\ Scheduling

\* The registry: registration and lookup of every name, starts by name and
\* over HTTP (which give the registered services their different statuses),
\* and stops of a name that is not registered.
NextRegistry ==
    \/ Initialize
    \/ \E cls \in Classes, ovr \in Overrides \cup {""} :
           RegisterService(cls, ovr)
    \/ \E n \in Lookups : GetService(n)
    \/ \E n \in Lookups : StartService(n, Null)
    \/ \E n \in Lookups : HttpStartService(n, Null)
    \/ \E c \in Callers : HttpStopService(c, Missing)
    \/ \E c \in Callers : StopService(c, Missing)

SpecRegistry == Init /\ [][NextRegistry]_vars

\* The loops over the registry: Application.start up to the await of the
\* server (which goes on serving), Application.stop, registration at any
\* moment, and the monitor tasks as far as a stop can tell them apart.
NextBulk ==
    \/ Initialize
    \/ \E cls \in Classes, ovr \in Overrides \cup {""} :
           RegisterService(cls, ovr)
    \/ \E c \in Callers, F \in SUBSET Names, e \in Msgs :
           ApplicationStart(c, F, e)
    \/ \E c \in Callers : ApplicationStop(c)
    \/ \E c \in Callers : Awaited(c)
    \/ \E t \in TaskIds, e \in Msgs : HandlerRaises(t, e)
    \/ \E t \in TaskIds : Cancelled(t)

SpecBulk == Init /\ [][NextBulk]_vars

\* The loops over the registry under the scheduling of the event loop: one
\* application (the configuration AllEnabled) that is started once and
\* goes on serving, registration at any moment, and Application.stop by
\* any number of callers at once.
StartOnce(F, e) ==
    /\ \A c \in Callers : frames[c].pc # "serve"
    /\ ApplicationStart(1, F, e)

NextDrain ==
    \/ Initialize
    \/ \E cls \in Classes, ovr \in Overrides \cup {""} :
           RegisterService(cls, ovr)
    \/ \E F \in SUBSET Names, e \in Msgs : StartOnce(F, e)
    \/ \E c \in Callers : ApplicationStop(c)
    \/ \E c \in Callers : Awaited(c)
    \/ \E t \in TaskIds, e \in Msgs : HandlerRaises(t, e)
    \/ \E t \in TaskIds : Cancelled(t)

SpecDrain == InitTeardown /\ [][NextDrain]_vars /\ Scheduling

\* One service, started by name and stopped by name and over HTTP by any
\* number of callers at once, with a monitor task that may end with an
\* exception.
NextStop ==
    \/ Initialize
    \/ RegisterService("MonitoringService", "")
    \/ \E n \in Names, fail \in Failure : StartService(n, fail)
    \/ \E c \in Callers, n \in Names : HttpStopService(c, n)
    \/ \E c \in Callers, n \in Names : StopService(c, n)
    \/ \E c \in Callers : Awaited(c)
    \/ \E t \in TaskIds, e \in Msgs : HandlerRaises(t, e)
    \/ \E t \in TaskIds : Cancelled(t)

SpecStop == Init /\ [][NextStop]_vars

\* A service that is in ERROR.  status.state is a plain field of the public
\* status object; nothing in MonitoringService assigns ERROR to it, a
\* concrete service or its caller does.  The application is initialized and
\* the service is registered, with no monitor task.
InitInError ==
    /\ config \in AppConfigs
    /\ setup_complete = TRUE
    /\ initialized = TRUE
    /\ api = 1
    /\ app_state = STOPPED
    /\ order = <<DerivedName("MonitoringService")>>
    /\ svc = [n \in Names |->
                 IF n = DerivedName("MonitoringService")
                 THEN [RegisteredInstance(1, n) EXCEPT
                          !.status.state = ERROR,
                          !.status.error = Some(<<"boom">>)]
                 ELSE NoService]
    /\ tasks = [t \in TaskIds |-> NoTask]
    /\ frames = [c \in Callers |-> Idle]
    /\ last = NoReturn
    /\ path = NoPath

\* The operations on that service: the direct calls and Application.stop.
NextInError ==
    \/ \E n \in Names, cfg \in ServiceConfigs : Configure(n, cfg)
    \/ \E n \in Names, m \in Msgs : SetError(n, m)
    \/ \E n \in Names, fail \in Failure : Start(n, fail)
    \/ \E c \in Callers, n \in Names : Stop(c, n)
    \/ \E c \in Callers : ApplicationStop(c)
    \/ \E c \in Callers : Awaited(c)
    \/ \E t \in TaskIds : Collect(t)
    \/ \E t \in TaskIds, e \in Msgs : CollectRaises(t, e)
    \/ \E t \in TaskIds : Cancelled(t)

SpecInError == InitInError /\ [][NextInError]_vars

\* Two services registered on an initialized application, the monitoring
\* service first, neither started yet.
InitTwo ==
    /\ config \in AppConfigs
    /\ setup_complete = TRUE
    /\ initialized = TRUE
    /\ api = 1
    /\ app_state = STOPPED
    /\ order = <<DerivedName("MonitoringService"), OverridePool[1]>>
    /\ svc = [n \in Names |->
                 IF n = order[1] THEN RegisteredInstance(1, n)
                 ELSE IF n = order[2] THEN RegisteredInstance(2, n)
                 ELSE NoService]
    /\ tasks = [t \in TaskIds |-> NoTask]
    /\ frames = [c \in Callers |-> Idle]
    /\ last = NoReturn
    /\ path = NoPath

\* The two services started and stopped by name, by callers that may overlap.
NextByName ==
    \/ \E n \in Names, fail \in Failure : StartService(n, fail)
    \/ \E c \in Callers, n \in Names : StopService(c, n)
    \/ \E c \in Callers : Awaited(c)
    \/ \E t \in TaskIds : Cancelled(t)

SpecByName == InitTwo /\ [][NextByName]_vars

\* Services registered and then configured again and again by their owner,
\* with every metadata mapping.
NextConfigure ==
    \/ Initialize
    \/ \E ovr \in {"", OverridePool[1]} :
           RegisterService("MonitoringService", ovr)
    \/ \E n \in Names, cfg \in ConfigureArgs : Configure(n, cfg)

SpecConfigure == Init /\ [][NextConfigure]_vars

\* The whole life of a registry: registration, every operation that looks
\* services up or goes through them all, and the application-wide state set
\* from outside.  One application (the configuration Partial), and one
\* caller at a time inside the calls that suspend.
InitLifetime == Init /\ config = Partial

NextLifetime ==
    \/ Initialize
    \/ \E ovr \in {"", OverridePool[1]} :
           RegisterService("MonitoringService", ovr)
    \/ \E n \in Lookups : GetService(n)
    \/ \E n \in Lookups : StartService(n, Null)
    \/ \E n \in Lookups : HttpStartService(n, Null)
    \/ \E n \in Lookups : StopService(1, n)
    \/ \E n \in Lookups : HttpStopService(1, n)
    \/ ApplicationStart(1, {}, "boom")
    \/ ServerReturns(1)
    \/ ApplicationStop(1)
    \/ \E s \in ServiceState : SetState(s)
    \/ Awaited(1)
    \/ \E t \in TaskIds : Cancelled(t)

SpecLifetime == InitLifetime /\ [][NextLifetime]_vars

\* Application.start from beginning to end: the server it awaits returns or
\* raises, while services are registered and Application.stop is called.
NextServe ==
    \/ Initialize
    \/ RegisterService("MonitoringService", "")
    \/ \E c \in Callers, F \in SUBSET Names, e \in Msgs :
           ApplicationStart(c, F, e)
    \/ \E c \in Callers : ServerReturns(c)
    \/ \E c \in Callers, e \in Msgs : ServerRaises(c, e)
    \/ \E c \in Callers : ApplicationStop(c)
    \/ \E c \in Callers : Awaited(c)
    \/ \E t \in TaskIds : Cancelled(t)

SpecServe == Init /\ [][NextServe]_vars

\* The application-wide state over the whole of Application.start and
\* Application.stop: one application (the configuration AllEnabled) with up
\* to two services registered at any moment, Application.start called by
\* the main coroutine, with no start or every start failing, until its
\* server returns or raises, stops that raise, and Application.stop by any
\* number of callers at once.
StartAllOrNone(F, e) ==
    /\ F \in {{}, Registered}
    /\ ApplicationStart(1, F, e)

NextAppState ==
    \/ Initialize
    \/ \E ovr \in {"", OverridePool[1]} :
           RegisterService("MonitoringService", ovr)
    \/ \E F \in SUBSET Names, e \in Msgs : StartAllOrNone(F, e)
    \/ ServerReturns(1)
    \/ \E e \in Msgs : ServerRaises(1, e)
    \/ \E c \in Callers : ApplicationStop(c)
    \/ \E c \in Callers : Awaited(c)
    \/ \E t \in TaskIds, e \in Msgs : HandlerRaises(t, e)
    \/ \E t \in TaskIds : Cancelled(t)

SpecAppState == InitTeardown /\ [][NextAppState]_vars

\* The status of a service read over HTTP in every state the service gets
\* into.
NextWire ==
    \/ Initialize
    \/ RegisterService("MonitoringService", "")
    \/ \E n \in Names, cfg \in ServiceConfigs : Configure(n, cfg)
    \/ \E n \in Names, m \in Msgs : SetError(n, m)
    \/ \E n \in Names, fail \in Failure : Start(n, fail)
    \/ \E c \in Callers, n \in Names : Stop(c, n)
    \/ \E c \in Callers : Awaited(c)
    \/ \E t \in TaskIds : Collect(t)
    \/ \E t \in TaskIds : Cancelled(t)
    \/ \E n \in Names, ic \in BOOLEAN : StatusRoute(n, ic)

SpecWire == Init /\ [][NextWire]_vars

\* Services of every class name constructed with and without an override.
NextNames ==
    \E words \in ClassNames, ovr \in Overrides \cup {""} :
        Construct(words, ovr)

SpecNames == Init /\ [][NextNames]_vars

\* ------------------------------------------------------------- properties
\* Calls that start one service, calls that look a service up by name.
StartCalls == {"start", "start_service"}
StartOps == StartCalls \cup {"http_start"}
LookupOps == {"start_service", "stop_service", "http_start", "http_stop"}

\* The not-found error of a lookup, as its caller sees it.
NotFound(op) == IF op \in HttpOps THEN "HTTP404" ELSE "ValueError"

\* The attempts of a loop that raised.
Failed(log) == {i \in 1..Len(log) : log[i][2] # Null}

\* The edges of the lifecycle state machine.
LifecycleEdges ==
    {<<INITIALIZED, STARTING>>, <<STARTING, RUNNING>>, <<RUNNING, STOPPING>>,
     <<STOPPING, STOPPED>>, <<STARTING, ERROR>>, <<RUNNING, ERROR>>,
     <<STOPPING, ERROR>>, <<ERROR, STARTING>>, <<STOPPED, STARTING>>}

\* C1: register_service under a name that is already in the registry raises
\* ValueError and leaves the registry as it was: the name is bound to the
\* instance registered first, no entry is added or removed, and no
\* registered service's status (or anything else of it) changes.
C1_DuplicateRegistrationRejected ==
    [][(last'.op = "register" /\ last'.svc \in Registered)
       => /\ last'.res = "ValueError"
          /\ order' = order
          /\ svc' = svc
          /\ tasks' = tasks]_vars

\* C1, the case: a registration was just refused as a duplicate while the
\* registry is full and one of its services is running.
C1_Witness ==
    /\ last.op = "register"
    /\ last.res = "ValueError"
    /\ Registered = Names
    /\ \E n \in Registered : svc[n].status.state = RUNNING

\* C2 as stated: start_service(n), stop_service(n) and the two routes, for a
\* name n that is not in the registry, fail with the not-found error
\* (ValueError, HTTP 404) and change neither the registry nor any status.
C2_NotFoundAlways ==
    [][(last'.op \in LookupOps /\ last'.svc \notin Registered)
       => /\ last'.res = NotFound(last'.op)
          /\ order' = order
          /\ svc' = svc
          /\ tasks' = tasks]_vars

\* C2: for a name n that is not in the registry, start_service(n) raises
\* ValueError once the application is initialized and RuntimeError before;
\* stop_service(n) raises ValueError and the two routes answer 404; none of
\* them changes the registry or the status of any registered service.
C2_NotFoundOnceInitialized ==
    [][(last'.op \in LookupOps /\ last'.svc \notin Registered)
       => /\ last'.res = IF last'.op = "start_service" /\ ~setup_complete
                         THEN "RuntimeError"
                         ELSE NotFound(last'.op)
          /\ order' = order
          /\ svc' = svc
          /\ tasks' = tasks]_vars

\* C2, the case: a lookup of an unregistered name was just refused with the
\* not-found error while a registered service is running.
C2_Witness ==
    /\ last.op \in LookupOps
    /\ last.svc \notin Registered
    /\ last.res = NotFound(last.op)
    /\ \E n \in Registered : svc[n].status.state = RUNNING

C4_StopAllIsolatesFailures ==
    (/\ last.op = "app_stop"
     /\ last.res # "pending"
     /\ last.size = Len(order)
     /\ Failed(last.log) # {})
    => /\ last.res = "ok"
       /\ Len(last.log) = Len(order)
       /\ \A i \in 1..Len(last.log) :
              /\ last.log[i][1] = order[i]
              /\ i \notin Failed(last.log) => last.log[i][3] = STOPPED

\* C4, the case: Application.stop just returned, the stop of the first
\* service had raised and the stop of the second one went through.
C4_Witness ==
    /\ last.op = "app_stop"
    /\ last.res = "ok"
    /\ Len(last.log) = 2
    /\ Failed(last.log) = {1}
    /\ last.log[2][3] = STOPPED

\* C5: when start() raises (called directly or through start_service), the
\* exception reaches the caller with the state already ERROR and the error
\* carrying the exception's message.
C5_StartFailureRecorded ==
    (last.op \in StartCalls /\ last.res = "Exception")
    => LET st == svc[last.svc].status
       IN /\ st.state = ERROR
          /\ st.error # Null
          /\ \E i \in 1..Len(The(st.error)) :
                 The(st.error)[i] = The(last.exc)

\* C6: start() on a service that was never configured raises
\* ConfigurationError and leaves the status as it was, state INITIALIZED and
\* error null.
C6_StartNeedsConfiguration ==
    (/\ last.op \in StartCalls
     /\ last.svc \in Registered
     /\ svc[last.svc].config = Null)
    => /\ last.res = "ConfigurationError"
       /\ path[last.svc] = <<>>
       /\ Snap(svc[last.svc]) = [state |-> INITIALIZED, error |-> Null]

\* C7: a start() that succeeds on a configured service in INITIALIZED,
\* STOPPED or ERROR passes through STARTING and ends in RUNNING with no
\* error, whatever the error was before.
C7_SuccessfulStart ==
    \A n \in Names :
        (/\ last.op \in StartOps
         /\ last.svc = n
         /\ last.res \in {"ok", "HTTP200"}
         /\ svc[n].config # Null
         /\ path[n][1].state \in {INITIALIZED, STOPPED, ERROR})
        => /\ Len(path[n]) = 3
           /\ path[n][2].state = STARTING
           /\ path[n][3] = [state |-> RUNNING, error |-> Null]
           /\ Snap(svc[n]) = path[n][3]

\* C7, the case: a start just succeeded on a configured, stopped service
\* that carried an error.
C7_Witness ==
    \E n \in Names :
        /\ last.op \in StartOps
        /\ last.svc = n
        /\ last.res \in {"ok", "HTTP200"}
        /\ svc[n].config # Null
        /\ path[n][1].state = STOPPED
        /\ path[n][1].error # Null

\* C8: in every reachable state, a service's error is non-null only if its
\* state is ERROR.
C8_ErrorOnlyInErrorState ==
    \A n \in Registered :
        svc[n].status.error # Null => svc[n].status.state = ERROR

\* C9: every change of a service's state follows an edge of the lifecycle
\* state machine.
C9_LifecycleEdgesOnly ==
    \A n \in Names :
        \A i \in 1..(Len(path[n]) - 1) :
            path[n][i].state # path[n][i + 1].state
                => <<path[n][i].state, path[n][i + 1].state>> \in LifecycleEdges

\* C10: set_error(message) leaves the error equal to the message and the
\* state ERROR.
C10_SetErrorForcesError ==
    last.op = "set_error"
    => /\ svc[last.svc].status.error = Some(<<The(last.exc)>>)
       /\ svc[last.svc].status.state = ERROR

\* The monitor task a stop() of n awaits ended with an exception: the
\* underlying stop of n failed.
StopFailed(n) == svc[n].task # 0 /\ tasks[svc[n].task].st = "failed"

\* C11: when the underlying stop fails during stop(), stop() catches the
\* exception and returns without raising, and the service ends in ERROR
\* with an error describing the failure.
C11_StopFailureCaught ==
    (/\ last.op = "stop"
     /\ last.res # "pending"
     /\ StopFailed(last.svc))
    => /\ last.res = "ok"
       /\ svc[last.svc].status.state = ERROR
       /\ svc[last.svc].status.error # Null

\* C13: a failed stop does not strand the service: after a stop() that
\* failed, a further stop() can go through to STOPPED, that is, it does not
\* fail by what the first one left behind.
C13_StoppedReachableAfterFailedStop ==
    (last.op = "stop" /\ last.res = "Exception")
    => StopBegin(svc[last.svc], tasks).exc = Null

\* C14: after a stop() that completes successfully the error is null, even
\* if it was non-null before the stop.
C14_SuccessfulStopClearsError ==
    (last.op = "stop" /\ last.res = "ok")
    => svc[last.svc].status.error = Null

\* Calls that stop one service by name.
StopByName == {"stop_service", "http_stop"}

Attempts(log, n) == {i \in 1..Len(log) : log[i][1] = n}

\* The place of a registered name in registration order.
Pos(n) == CHOOSE i \in 1..Len(order) : order[i] = n

\* The entry of n in the application's configuration has enabled == true,
\* has autostart == true.
HasEnabledEntry(n) ==
    n \in DOMAIN config /\ ServiceConfiguration(config[n]).enabled
HasAutostartEntry(n) ==
    n \in DOMAIN config /\ ServiceConfiguration(config[n]).autostart

\* C16: within one run of the loop of Application.start or Application.stop
\* the services are taken in registration order and one at a time: the
\* attempts made so far are in that order, the stop loop has attempted
\* exactly the services before the one it is suspended in, and no service
\* after that one has been touched.
C16_BulkInOrderOneAtATime ==
    /\ last.op = "app_start"
       => \A i, j \in 1..Len(last.log) :
              i < j => Pos(last.log[i][1]) < Pos(last.log[j][1])
    /\ last.op = "app_stop"
       => /\ \A i \in 1..Len(last.log) : last.log[i][1] = order[i]
          /\ last.res = "pending"
             => \A j \in (Len(last.log) + 2)..last.size :
                    path[order[j]] = <<>>
    /\ \A c \in Callers :
           frames[c].op = "app_stop"
           => /\ frames[c].idx = Len(frames[c].log) + 1
              /\ frames[c].svc = order[frames[c].idx]
              /\ \A i \in 1..Len(frames[c].log) : frames[c].log[i][1] = order[i]

\* C16, the case: Application.stop is suspended in the stop of the first
\* service while a second one is registered after it.
C16_Witness ==
    /\ last.op = "app_stop"
    /\ last.res = "pending"
    /\ last.log = <<>>
    /\ last.size = 2
    /\ path[order[1]] # <<>>
    /\ path[order[2]] = <<>>

\* C17: the loop of Application.start calls start() exactly once on each
\* registered service whose configuration entry has enabled == true and
\* never on one whose entry has enabled == false or that has no entry; the
\* services it does not start keep their status.
C17_StartsExactlyTheEnabled ==
    last.op = "app_start"
    => \A n \in Registered :
           /\ Cardinality(Attempts(last.log, n)) =
                  IF HasEnabledEntry(n) THEN 1 ELSE 0
           /\ ~HasEnabledEntry(n) => path[n] = <<>>

\* C17, the case: Application.start started one registered service and left
\* another, which is disabled, alone.
C17_Witness ==
    /\ last.op = "app_start"
    /\ \E n, m \in Registered :
           /\ Attempts(last.log, n) # {}
           /\ m \in DOMAIN config
           /\ ~ServiceConfiguration(config[m]).enabled
           /\ Attempts(last.log, m) = {}
           /\ svc[m].status.state = INITIALIZED

\* C18: a service is started by the loop of Application.start exactly when
\* its configuration entry has autostart == true, whatever its enabled
\* flag.
C18_StartsExactlyTheAutostart ==
    last.op = "app_start"
    => \A n \in Registered :
           Attempts(last.log, n) # {} <=> HasAutostartEntry(n)

\* C20: Application.stop calls stop() on every registered service, whatever
\* its state and configuration, and every service whose stop did not raise
\* ends that stop in STOPPED (stated for the calls during which nothing is
\* registered).
C20_StopAllStopsEveryService ==
    (/\ last.op = "app_stop"
     /\ last.res # "pending"
     /\ setup_complete
     /\ last.size = Len(order))
    => /\ Len(last.log) = Len(order)
       /\ \A n \in Registered : Cardinality(Attempts(last.log, n)) = 1
       /\ \A i \in 1..Len(last.log) :
              last.log[i][2] = Null => last.log[i][3] = STOPPED

\* C20, the case: Application.stop just returned after stopping a service
\* that was running and one that is disabled and was never started.
C20_Witness ==
    /\ last.op = "app_stop"
    /\ last.res = "ok"
    /\ Len(last.log) = 2
    /\ path[last.log[1][1]] # <<>>
    /\ path[last.log[1][1]][1].state = STOPPING
    /\ ~HasEnabledEntry(last.log[2][1])
    /\ path[last.log[2][1]] # <<>>
    /\ path[last.log[2][1]][1].state = INITIALIZED
    /\ \A i \in 1..2 : svc[last.log[i][1]].status.state = STOPPED

\* C19: a start or a stop of the registered service n by name (the call, and
\* the step in which a suspended stop resumes and returns) changes the
\* status of n only: the status of every other service, the registry and
\* the application's state stay as they were, and no other service is
\* touched on the way.
ByNameOps == {"start_service", "stop_service"}
C19_ByNameTouchesOnlyItsService ==
    [][(last'.op \in ByNameOps /\ last'.svc \in Registered)
       => /\ \A m \in Names \ {last'.svc} :
                 /\ svc'[m] = svc[m]
                 /\ path'[m] = <<>>
          /\ order' = order
          /\ app_state' = app_state]_vars

\* C19, the case: a service was just stopped by name while the other
\* registered service is running, and stays so.
C19_Witness ==
    /\ last.op = "stop_service"
    /\ last.res = "ok"
    /\ svc[last.svc].status.state = STOPPED
    /\ \E m \in Registered \ {last.svc} : svc[m].status.state = RUNNING

\* status.is_configured, as a reader of the status finds it: true only when
\* the status has the field and it holds true.
IsConfigured(st) == "is_configured" \in DOMAIN st /\ st.is_configured

\* C21: configure(config) stores config as the service's configuration,
\* merges config.metadata into status.metadata and sets is_configured, and
\* starts nothing: state and error stay as they were and no monitor task is
\* created or touched, whatever the state it is called in.
C21_ConfigureOnlyConfigures ==
    [][last'.op = "configure"
       => LET n == last'.svc
              cfg == The(last'.exc)
          IN /\ svc'[n].config = Some(cfg)
             /\ cfg.metadata \subseteq svc'[n].status.metadata
             /\ IsConfigured(svc'[n].status)
             /\ svc'[n].status.state = svc[n].status.state
             /\ svc'[n].status.error = svc[n].status.error
             /\ svc'[n].task = svc[n].task
             /\ tasks' = tasks]_vars

\* The values a mapping gives a key (none, or one).
At(m, k) == {p[2] : p \in {q \in m : q[1] = k}}

C23_RegisteredAsConfigured ==
    (last.op = "register" /\ last.res = "ok")
    => LET s == svc[last.svc]
       IN IF last.svc \in DOMAIN config
          THEN /\ IsConfigured(s.status)
               /\ s.config = Some(ServiceConfiguration(config[last.svc]))
               /\ ServiceConfiguration(config[last.svc]).metadata
                      \subseteq s.status.metadata
               /\ s.status.state = INITIALIZED
          ELSE /\ s.config = Null
               /\ ~IsConfigured(s.status)
               /\ s.status = InitialStatus

\* C24: register_service returns the instance it has just bound to the
\* name, the one at the name's place in the registry; get_service(n)
\* returns that very instance for a registered n and null for any other
\* name, and changes neither the registry, nor any service, nor the
\* application's state.
C24_GetServiceIsPureLookup ==
    [][/\ (last'.op = "register" /\ last'.res = "ok")
          => /\ order'[Len(order')] = last'.svc
             /\ last'.ret = Some(Len(order'))
       /\ last'.op = "get_service"
          => /\ last'.ret = IF last'.svc \in Registered
                            THEN Some(Pos(last'.svc))
                            ELSE Null
             /\ order' = order
             /\ svc' = svc
             /\ tasks' = tasks
             /\ app_state' = app_state]_vars

\* C24, the case: get_service just returned the instance registered second
\* while a service is running.
C24_Witness ==
    /\ last.op = "get_service"
    /\ last.ret = Some(2)
    /\ Len(order) = 2
    /\ last.svc = order[2]
    /\ \E n \in Registered : svc[n].status.state = RUNNING

\* C25: of the register_service calls made for one name on an initialized
\* application, in any order and between any steps of other callers, the
\* first succeeds and every later one fails with ValueError: a call
\* succeeds exactly when the name is not yet in the registry, and after
\* every call the registry holds the name once, bound to the instance of
\* the call that succeeded.
C25_OneRegistrationWins ==
    [][(last'.op = "register" /\ setup_complete)
       => LET n == last'.svc
          IN /\ IF n \in Registered
                THEN /\ last'.res = "ValueError"
                     /\ order' = order
                     /\ svc'[n].inst = svc[n].inst
                ELSE /\ last'.res = "ok"
                     /\ order' = Append(order, n)
                     /\ last'.ret = Some(svc'[n].inst)
             /\ Cardinality({i \in 1..Len(order') : order'[i] = n}) = 1
             /\ \A m \in Names \ {n} : svc'[m] = svc[m]]_vars

\* C25, the case: the name registered first was registered again after
\* another name had been registered, and the call was refused with the
\* first instance still bound.
C25_Witness ==
    /\ last.op = "register"
    /\ last.res = "ValueError"
    /\ Len(order) = 2
    /\ last.svc = order[1]
    /\ svc[order[1]].inst = 1

\* A monitor task that has not ended: it waits in its loop, or it has been
\* asked to cancel and has not yet run.
Running(t) == tasks[t].st \in {"waiting", "cancelling"}

\* C26: when a stop() of a service returns, no monitor task created by a
\* start() of that service is still running.
C26_NoTaskSurvivesStop ==
    (last.op = "stop" /\ last.res # "pending")
    => \A t \in TaskIds : tasks[t].svc = last.svc => ~Running(t)

\* C27: the registry changes only by a successful register_service, which
\* adds one entry at the end: through every step a registered name keeps its
\* place and stays bound to the same instance, and no other operation adds,
\* removes or rebinds an entry.
C27_RegistryOnlyGrowsByRegister ==
    [][/\ \A i \in 1..Len(order) :
              /\ i <= Len(order')
              /\ order'[i] = order[i]
              /\ svc'[order[i]].inst = svc[order[i]].inst
       /\ order' # order
          => /\ last'.op = "register"
             /\ last'.res = "ok"
             /\ order' = Append(order, last'.svc)
       /\ \A n \in Names \ Registered :
              svc'[n].inst # svc[n].inst
                  => (last'.op = "register" /\ last'.svc = n)]_vars

\* C27, the case: Application.stop has just gone through a registry of two
\* services, one of them started before, and both names are bound to the
\* instances registered under them.
C27_Witness ==
    /\ last.op = "app_stop"
    /\ last.res = "ok"
    /\ Len(order) = 2
    /\ Len(last.log) = 2
    /\ \A i \in 1..2 : svc[order[i]].inst = i
    /\ \E t \in TaskIds : tasks[t].st = "cancelled"

\* Calls that start or stop one service, by name or over HTTP.
OneServiceOps == {"start_service", "stop_service", "http_start", "http_stop"}

\* C28: the application-wide state is STOPPED at construction; set_state(s)
\* makes it s, for every s, and changes no service and no registry entry;
\* starting or stopping one service leaves it as it was.
C28_ApplicationStateIndependent ==
    /\ app_state = STOPPED
    /\ [][/\ last'.op = "set_state"
             => /\ app_state' = The(last'.exc)
                /\ svc' = svc
                /\ order' = order
                /\ tasks' = tasks
          /\ last'.op \in OneServiceOps => app_state' = app_state]_vars

\* C28, the case: set_state has just made the application RUNNING while
\* its two services are registered and neither was ever started.
C28_Witness ==
    /\ last.op = "set_state"
    /\ app_state = RUNNING
    /\ Len(order) = 2
    /\ \A n \in Registered : svc[n].status.state = INITIALIZED

\* C29: when a start or a stop of a service requested over HTTP fails in the
\* service, the response is a 500 carrying the exception's message, and
\* once it is returned the service is in ERROR with the message as its
\* error.
C29_HttpFailureMarksError ==
    (last.op \in HttpOps /\ last.res = "HTTP500")
    => /\ last.exc # Null
       /\ svc[last.svc].status.error = Some(<<The(last.exc)>>)
       /\ svc[last.svc].status.state = ERROR

\* C30: when Application.start returns, the server having returned or
\* raised, the application-wide state is STOPPED.
C30_StoppedWhenStartReturns ==
    last.op = "serve" => app_state = STOPPED

\* C31: on an application that has not been initialized, register_service
\* and start_service raise RuntimeError and change nothing: the registry is
\* and stays empty, no instance is bound to any name, no task is created and
\* the application's state is and stays STOPPED.
C31_RefusedBeforeInitialize ==
    [][(last'.op \in {"register", "start_service"} /\ ~setup_complete)
       => /\ last'.res = "RuntimeError"
          /\ order = <<>>
          /\ order' = <<>>
          /\ svc' = svc
          /\ \A n \in Names : svc'[n] = NoService
          /\ tasks' = tasks
          /\ app_state = STOPPED
          /\ app_state' = STOPPED
          /\ setup_complete' = setup_complete]_vars

\* C31, the case: start_service of a name was just refused with RuntimeError
\* on an application that was never initialized.
C31_Witness ==
    /\ last.op = "start_service"
    /\ last.res = "RuntimeError"
    /\ last.svc \in Names
    /\ ~setup_complete
    /\ order = <<>>

\* C32: a call of initialize on an application that is set up sets nothing
\* up again and leaves the API instance, the registry, the services and the
\* application's state as they were; a call on a fresh application sets it
\* up; however many calls are made, the setup is performed once.
C32_InitializeOnce ==
    [][/\ last'.op = "initialize"
          => /\ IF setup_complete
                THEN api' = api
                ELSE api' = api + 1
             /\ setup_complete'
             /\ initialized'
             /\ order' = order
             /\ svc' = svc
             /\ tasks' = tasks
             /\ app_state' = app_state
       /\ api' <= 1
       /\ setup_complete' => api' = 1]_vars

\* C32, the case: initialize was called again after a service had been
\* registered and started, and there is still the one API instance.
C32_Witness ==
    /\ last.op = "initialize"
    /\ api = 1
    /\ \E n \in Registered : svc[n].status.state = RUNNING

\* C33: a ServiceStatus serialized to its wire representation and parsed
\* back is equal to the value it was made from: state, error, metadata and
\* is_configured are all the same.
C33_StatusRoundTrip ==
    last.op = "http_status"
    => LET raw == The(last.exc)
           back == ParseStatus(The(last.ret))
       IN /\ back.state = raw.state
          /\ back.error = raw.error
          /\ back.metadata = raw.metadata
          /\ IsConfigured(back) = raw.is_configured

\* A class name without its trailing "service", everything else kept.
WithoutSuffix(words) ==
    IF words[Len(words)] = "service"
    THEN SubSeq(words, 1, Len(words) - 1)
    ELSE words

\* C34: the name of a service is the override when one is given, and
\* otherwise the lower-cased class name with the trailing "service" removed
\* and nothing else.
C34_NameFromClass ==
    last.op = "construct"
    => LET words == The(last.exc)[1]
           ovr == The(last.exc)[2]
       IN The(last.ret) = IF ovr # "" THEN <<ovr>> ELSE WithoutSuffix(words)

\* C35: a run of the loop of Application.start or Application.stop during
\* which another caller registered a service ends without raising and has
\* attempted every service that was registered when it began (for the
\* start loop: every such service that is enabled).
C35_BulkSurvivesRegistration ==
    (/\ last.op \in {"app_start", "app_stop"}
     /\ last.op = "app_stop" => last.res # "pending"
     /\ setup_complete
     /\ Len(order) > last.size)
    => /\ last.res # "Exception"
       /\ \A i \in 1..last.size :
              (last.op = "app_stop" \/ HasEnabledEntry(order[i]))
                  => Attempts(last.log, order[i]) # {}

\* The monitor loop of n recorded a collection error in this step.
LoopRecordsError(n) == last'.op = "none" /\ path'[n] # <<>>

\* What a turn of the loop that caught a collection error does: the error
\* is on the status, the state is as it was, and the task is still there,
\* waiting in its sleep for the next collection.
LoopGoesOn ==
    \A n \in Names :
        LoopRecordsError(n)
        => /\ tasks' = tasks
           /\ \E t \in TaskIds : tasks'[t].svc = n /\ tasks'[t].st = "waiting"
           /\ svc'[n].status.error # Null
           /\ svc'[n].status.state = svc[n].status.state

\* C36 as stated: a collection error is recorded and the loop goes on, and
\* no monitor task ever ends in another way than by its cancellation.
C36_LoopEndsOnlyCancelled ==
    [][/\ LoopGoesOn
       /\ \A t \in TaskIds : tasks'[t].st # "failed"]_vars

\* C36: a turn of the monitor loop that catches a collection error records
\* it and leaves the task waiting for the next collection; a monitor task
\* ends either by its cancellation, after a cancel() request, or with an
\* exception that its error handler itself raised, and that end records
\* no error on the service.
C36_LoopSurvivesCollectionError ==
    [][/\ LoopGoesOn
       /\ \A t \in TaskIds :
              (tasks'[t].st # tasks[t].st
               /\ tasks'[t].st \in {"cancelled", "failed"})
              => \/ tasks[t].st = "cancelling" /\ tasks'[t].st = "cancelled"
                 \/ /\ tasks[t].st = "waiting"
                    /\ tasks'[t].st = "failed"
                    /\ tasks'[t].exc # Null
                    /\ svc' = svc]_vars

\* The loop of a running service has just recorded a collection error after
\* an earlier collection succeeded, and its task waits for the next turn.
C36_Witness ==
    /\ last.op = "none"
    /\ \E n \in Registered :
           /\ Len(path[n]) = 2
           /\ svc[n].status.state = RUNNING
           /\ svc[n].status.error # Null
           /\ Metrics \subseteq svc[n].status.metadata
           /\ \E t \in TaskIds : tasks[t].svc = n /\ tasks[t].st = "waiting"

\* A stop() of n is suspended at its await of the monitor task (a start()
\* never suspends, so none is ever in progress between two steps).
InProgress(n) == \E c \in Callers : frames[c].pc = "await" /\ frames[c].svc = n

\* C37: a registered service on which no start() or stop() call is in
\* progress is in INITIALIZED, RUNNING, STOPPED or ERROR, never in STARTING
\* or STOPPING, whatever calls were made before and whether they raised.
C37_NoTransientStateAtRest ==
    \A n \in Registered :
        ~InProgress(n) => svc[n].status.state \notin {STARTING, STOPPING}

\* The caller c is suspended in a stop() that awaits the monitor task.
StopSuspended(c) == frames[c].pc = "await" /\ frames[c].op = "stop"

\* Every suspended stop() goes on at some time.
StopsGoOn == \A c \in Callers : StopSuspended(c) ~> ~StopSuspended(c)

\* The stop() that returned in this state left its service in STOPPED with
\* no task handle.
StoppedClean ==
    /\ last.res = "ok"
    /\ svc[last.svc].status.state = STOPPED
    /\ svc[last.svc].task = 0

BulkSuspended(c) == frames[c].op = "app_stop" /\ frames[c].pc = "await"

\* C39: the loop of Application.start, whose start() calls all return or
\* raise at once, gets to every enabled service; the loop of
\* Application.stop goes on from the stop() it is suspended in only when
\* the task that stop() awaits has ended, until then it has attempted no
\* service registered after that one, and when every awaited task ends it
\* ends too: it returns when nothing was registered meanwhile.
C39_BulkEndsIffCallsEnd ==
    /\ []((last.op = "app_start" /\ last.res = "pending")
          => \A i \in 1..last.size :
                 HasEnabledEntry(order[i])
                     => Attempts(last.log, order[i]) # {})
    /\ [](\A c \in Callers :
              BulkSuspended(c)
              => /\ Len(frames[c].log) = frames[c].idx - 1
                 /\ \A j \in (frames[c].idx + 1)..frames[c].size :
                        Attempts(frames[c].log, order[j]) = {})
    /\ [][\A c \in Callers :
              (BulkSuspended(c) /\ frames'[c] # frames[c])
              => /\ tasks[frames[c].task].st \in {"cancelled", "failed"}
                 /\ last'.op = "app_stop"
                 /\ last'.size = Len(order) => last'.res \in {"ok", "pending"}]_vars
    /\ \A c \in Callers : BulkSuspended(c) ~> (frames[c] = Idle)

\* Application.stop was suspended in the stop of the first service, went on
\* when its task was cancelled, stopped the second service and returned.
C39_Witness ==
    /\ last.op = "app_stop"
    /\ last.res = "ok"
    /\ Len(last.log) = 2
    /\ Len(path[order[1]]) = 2
    /\ path[order[2]] # <<>>
    /\ \E t \in TaskIds : tasks[t].svc = order[1] /\ tasks[t].st = "cancelled"

\* The caller c, suspended in the loop of Application.stop, goes on in this
\* step.
BulkResumes(c) == BulkSuspended(c) /\ frames'[c] # frames[c]

\* This step is a call of Application.stop on an initialized application.
StopCalled ==
    /\ last'.op = "app_stop"
    /\ setup_complete
    /\ \A c \in Callers : ~BulkResumes(c)

\* Application.start: STARTING at every start attempt, RUNNING once every
\* enabled service has been attempted.
StartSequence ==
    last'.op = "app_start"
    => /\ \A i \in 1..Len(last'.log) : last'.log[i][4] = STARTING
       /\ app_state' = RUNNING
       /\ \A i \in 1..last'.size :
              HasEnabledEntry(order[i]) => Attempts(last'.log, order[i]) # {}

\* A call of Application.stop from its beginning to its first suspension or
\* its end: STOPPING at every stop attempt, and STOPPED exactly when it
\* returned, with every service attempted.
StopSequence ==
    StopCalled
    => /\ \A i \in 1..Len(last'.log) : last'.log[i][4] = STOPPING
       /\ app_state' = IF last'.res = "ok" THEN STOPPED ELSE STOPPING
       /\ last'.res = "ok" => Len(last'.log) = last'.size

\* Application.stop before initialize: it returns and nothing has changed.
StopUninitialized ==
    (last'.op = "app_stop" /\ ~setup_complete)
    => /\ last'.res = "ok"
       /\ app_state' = app_state
       /\ setup_complete' = setup_complete
       /\ order' = order
       /\ svc' = svc
       /\ tasks' = tasks
       /\ frames' = frames

\* C40 as stated: the application is in STARTING at every start attempt of
\* Application.start and in RUNNING after the last; it is in STOPPING at
\* every stop attempt of Application.stop and while that stop is suspended,
\* and in STOPPED only once the last stop has returned or raised;
\* Application.stop before initialize changes nothing.
C40_StateFollowsTheLoops ==
    [][/\ StartSequence
       /\ StopSequence
       /\ StopUninitialized
       /\ \A c \in Callers :
              /\ BulkSuspended(c)' => app_state' = STOPPING
              /\ BulkResumes(c)
                 => /\ \A i \in 1..Len(last'.log) :
                           last'.log[i][4] = STOPPING
                    /\ app_state' = IF last'.res = "ok" THEN STOPPED
                                    ELSE STOPPING
                    /\ last'.res = "ok" => Len(last'.log) = last'.size]_vars

\* C40: as stated for Application.start, for Application.stop before
\* initialize and for a call of Application.stop up to its first
\* suspension.  A suspended Application.stop does not assign the state
\* again: it makes its later attempts in the state it finds, which is
\* STOPPING unless another Application.start or Application.stop call
\* assigned it meanwhile (no step of a service, of a task or of a
\* registration does), and assigns STOPPED when it returns, every service
\* attempted, even if every stop raised.
C40_StateAssignedOncePerLoop ==
    [][/\ StartSequence
       /\ StopSequence
       /\ StopUninitialized
       /\ last'.op \notin {"app_start", "app_stop", "serve"}
              => app_state' = app_state
       /\ \A c \in Callers :
              BulkResumes(c)
              => /\ \A i \in 1..Len(last'.log) :
                        last'.log[i][4] = IF i <= Len(frames[c].log)
                                          THEN frames[c].log[i][4]
                                          ELSE app_state
                 /\ app_state' = IF last'.res = "ok" THEN STOPPED
                                 ELSE app_state
                 /\ last'.res = "ok" => Len(last'.log) = last'.size]_vars

\* Application.stop has returned from an application with two services:
\* both stops raised, the state was STOPPING at both attempts and is STOPPED
\* now.
C40_Witness ==
    /\ last.op = "app_stop"
    /\ last.res = "ok"
    /\ Len(last.log) = 2
    /\ \A i \in 1..2 : last.log[i][2] # Null /\ last.log[i][4] = STOPPING
    /\ app_state = STOPPED

====
